---- MODULE Spec2Model ----
(***************************************************************************)
(* A model of yumdeps.py: the package/dependency model (class PkgDep), the *)
(* two line classifiers, the two file parsers and the dependency-list      *)
(* query used by the renderers.                                            *)
(*                                                                         *)
(* A Python str is a sequence of one-character strings, so that split(),   *)
(* strip(), concatenation and the ordering used by sorted() are computed   *)
(* character by character.                                                 *)
(***************************************************************************)
EXTENDS Integers, Sequences, FiniteSets, TLC

VARIABLES
    pkg,            \* PkgDep.pkg: package key -> attribute dictionary
    dep,            \* PkgDep.dep: package key -> ordered dict of dependencies
    call,           \* the last call made on the model, with its outcome
    nCalls,         \* number of calls made so far
    file,           \* the lines of the file being parsed
    pos,            \* index of the next line of the file
    pc,             \* where the running parser is
    pkg_name,       \* parser local
    pkg_arch,       \* parser local
    pkg_version,    \* parser local
    pkg_release,    \* parser local
    pkg_repository, \* parser local
    pkg_summary,    \* parser local
    dep_name,       \* parser local
    line,           \* the argument of a classifier
    ret             \* the value returned by a classifier or a query

modelVars == <<pkg, dep>>
apiVars == <<call, nCalls>>
infoLocals == <<pkg_arch, pkg_version, pkg_release, pkg_repository, pkg_summary>>
parseVars == <<file, pos, pc, pkg_name, dep_name>>
funcVars == <<line, ret>>
vars == <<pkg, dep, call, nCalls, file, pos, pc, pkg_name, pkg_arch, pkg_version,
          pkg_release, pkg_repository, pkg_summary, dep_name, line, ret>>

----------------------------------------------------------------------------
(* Strings *)

\* The code point of each character the model uses (Python compares str by
\* code point).
Ord ==
    ("\t" :> 9) @@ ("\n" :> 10) @@ (" " :> 32) @@ ("-" :> 45) @@ ("." :> 46) @@
    ("1" :> 49) @@ ("2" :> 50) @@ (":" :> 58) @@
    ("A" :> 65) @@ ("N" :> 78) @@ ("R" :> 82) @@ ("S" :> 83) @@ ("V" :> 86) @@
    ("a" :> 97) @@ ("b" :> 98) @@ ("c" :> 99) @@ ("d" :> 100) @@ ("e" :> 101) @@
    ("f" :> 102) @@ ("g" :> 103) @@ ("h" :> 104) @@ ("i" :> 105) @@ ("k" :> 107) @@
    ("l" :> 108) @@ ("m" :> 109) @@ ("n" :> 110) @@ ("o" :> 111) @@ ("p" :> 112) @@
    ("r" :> 114) @@ ("s" :> 115) @@ ("u" :> 117) @@ ("v" :> 118) @@ ("x" :> 120) @@
    ("y" :> 121)

\* str.isspace() for one character
IsSpace(c) == c \in {" ", "\t", "\n"}

\* s < t for two str
RECURSIVE StrLess(_, _)
StrLess(s, t) ==
    IF t = <<>> THEN FALSE
    ELSE IF s = <<>> THEN TRUE
    ELSE IF Ord[Head(s)] # Ord[Head(t)] THEN Ord[Head(s)] < Ord[Head(t)]
    ELSE StrLess(Tail(s), Tail(t))

\* str.lstrip()
RECURSIVE LStrip(_)
LStrip(s) ==
    IF s # <<>> /\ IsSpace(Head(s)) THEN LStrip(Tail(s)) ELSE s

\* str.rstrip()
RECURSIVE RStrip(_)
RStrip(s) ==
    IF s # <<>> /\ IsSpace(s[Len(s)]) THEN RStrip(SubSeq(s, 1, Len(s) - 1)) ELSE s

\* str.strip()
Strip(s) == RStrip(LStrip(s))

\* str.split(sep) for a one-character separator: every occurrence of sep
\* ends a word, so the result has one word more than s has separators.
RECURSIVE SplitOn(_, _)
SplitOn(s, sep) ==
    IF \A i \in 1..Len(s) : s[i] # sep THEN <<s>>
    ELSE LET i == CHOOSE j \in 1..Len(s) :
                      s[j] = sep /\ \A k \in 1..(j - 1) : s[k] # sep
         IN  <<SubSeq(s, 1, i - 1)>> \o SplitOn(SubSeq(s, i + 1, Len(s)), sep)

\* str.split() without a separator: the maximal runs of non-whitespace.
RECURSIVE SplitWords(_)
SplitWords(s) ==
    LET t == LStrip(s) IN
    IF t = <<>> THEN <<>>
    ELSE IF \A i \in 1..Len(t) : ~IsSpace(t[i]) THEN <<t>>
    ELSE LET i == CHOOSE j \in 1..Len(t) :
                      IsSpace(t[j]) /\ \A k \in 1..(j - 1) : ~IsSpace(t[k])
         IN  <<SubSeq(t, 1, i - 1)>> \o SplitWords(SubSeq(t, i + 1, Len(t)))

\* sorted() of a list of str (insertion of each element into a sorted list)
RECURSIVE InsertSorted(_, _)
InsertSorted(x, s) ==
    IF s = <<>> THEN <<x>>
    ELSE IF StrLess(x, Head(s)) THEN <<x>> \o s
    ELSE <<Head(s)>> \o InsertSorted(x, Tail(s))

RECURSIVE Sorted(_)
Sorted(s) ==
    IF s = <<>> THEN <<>> ELSE InsertSorted(Head(s), Sorted(Tail(s)))

----------------------------------------------------------------------------
(* Program constants *)

KEY_NAME == <<"N", "a", "m", "e">>
KEY_ARCH == <<"A", "r", "c", "h">>
KEY_VERSION == <<"V", "e", "r", "s", "i", "o", "n">>
KEY_RELEASE == <<"R", "e", "l", "e", "a", "s", "e">>
KEY_REPOSITORY == <<"R", "e", "p", "o">>
KEY_SUMMARY == <<"S", "u", "m", "m", "a", "r", "y">>
KEY_INFO_LIST ==
    {KEY_NAME, KEY_ARCH, KEY_VERSION, KEY_RELEASE, KEY_REPOSITORY, KEY_SUMMARY}

KEY_PACKAGE == <<"p", "a", "c", "k", "a", "g", "e", ":">>
KEY_DEPENDENCY == <<"d", "e", "p", "e", "n", "d", "e", "n", "c", "y", ":">>
KEY_PROVIDER == <<"p", "r", "o", "v", "i", "d", "e", "r", ":">>
KEY_DEP_LIST == {KEY_PACKAGE, KEY_DEPENDENCY, KEY_PROVIDER}

INTERNAL == <<"i", "n", "t", "e", "r", "n", "a", "l">>

UNDEFINED == <<"u", "n", "d", "e", "f", "i", "n", "e", "d">>

\* Python's None: a value that is no str
None == <<"None">>

\* The exc field of a call that returned
NoExc == "none"

----------------------------------------------------------------------------
(* class PkgDep *)

\* d[k] = v on a dict
DictSet(d, k, v) == [x \in (DOMAIN d) \cup {k} |-> IF x = k THEN v ELSE d[x]]

\* The keys of one package's dependency dictionary, in the dictionary's order
DepKeys(deps) == [i \in 1..Len(deps) |-> deps[i].name]

\* dep_name in self.dep[pkg_name]
HasDep(deps, d_name) == \E i \in 1..Len(deps) : deps[i].name = d_name

\* self.dep[pkg_name][dep_name]
Providers(deps, d_name) ==
    deps[CHOOSE i \in 1..Len(deps) : deps[i].name = d_name].providers

\* PkgDep.__init__
EmptyDict == [x \in {} |-> <<>>]

\* add_package as its docstring words it ("If the package already exists, it is
\* overwritten"): the membership test is missing.
add_package_overwrite(P, D, p_name, arch, version, release, repository, summary) ==
    [pkg |-> DictSet(P, p_name,
                     [Arch |-> arch, Version |-> version, Release |-> release,
                      Repo |-> repository, Summary |-> summary]),
     dep |-> DictSet(D, p_name, <<>>),
     exc |-> NoExc]

\* add_package without the last statement (self.dep[pkg_name] = {}): the
\* package gets no dependency dictionary
add_package_no_dep_entry(P, D, p_name, arch, version, release, repository, summary) ==
    IF p_name \notin DOMAIN P
    THEN [pkg |-> DictSet(P, p_name,
                          [Arch |-> arch, Version |-> version, Release |-> release,
                           Repo |-> repository, Summary |-> summary]),
          dep |-> D,
          exc |-> NoExc]
    ELSE [pkg |-> P, dep |-> D, exc |-> NoExc]

\* PkgDep.add_package: the model after the call
add_package(P, D, p_name, arch, version, release, repository, summary) ==
    IF p_name \notin DOMAIN P
    THEN [pkg |-> DictSet(P, p_name,
                          [Arch |-> arch, Version |-> version, Release |-> release,
                           Repo |-> repository, Summary |-> summary]),
          dep |-> DictSet(D, p_name, <<>>),
          exc |-> NoExc]
    ELSE [pkg |-> P, dep |-> D, exc |-> NoExc]

\* add_dependency without the test for an existing dependency: the update()
\* replaces the provider list of a dependency that is already there.
add_dependency_reset(P, D, p_name, d_name) ==
    IF p_name \in DOMAIN D
    THEN [pkg |-> P,
          dep |-> DictSet(D, p_name,
                    IF HasDep(D[p_name], d_name)
                    THEN [i \in 1..Len(D[p_name]) |->
                            IF D[p_name][i].name = d_name
                            THEN [name |-> d_name, providers |-> <<>>]
                            ELSE D[p_name][i]]
                    ELSE Append(D[p_name], [name |-> d_name, providers |-> <<>>])),
          exc |-> NoExc]
    ELSE [pkg |-> P,
          dep |-> DictSet(D, p_name, <<[name |-> d_name, providers |-> <<>>]>>),
          exc |-> NoExc]

\* PkgDep.add_dependency: the model after the call
add_dependency(P, D, p_name, d_name) ==
    IF p_name \in DOMAIN D
    THEN IF ~HasDep(D[p_name], d_name)
         THEN [pkg |-> P,
               dep |-> DictSet(D, p_name,
                               Append(D[p_name], [name |-> d_name, providers |-> <<>>])),
               exc |-> NoExc]
         ELSE [pkg |-> P, dep |-> D, exc |-> NoExc]
    ELSE [pkg |-> P,
          dep |-> DictSet(D, p_name, <<[name |-> d_name, providers |-> <<>>]>>),
          exc |-> NoExc]

\* add_provider that declares a missing dependency itself instead of raising
add_provider_lenient(P, D, p_name, d_name, provider, version) ==
    LET deps == IF p_name \in DOMAIN D THEN D[p_name] ELSE <<>> IN
    [pkg |-> P,
     dep |-> DictSet(D, p_name,
               IF HasDep(deps, d_name)
               THEN [i \in 1..Len(deps) |->
                       IF deps[i].name = d_name
                       THEN [name |-> d_name,
                             providers |-> Append(deps[i].providers,
                                                  <<provider, version>>)]
                       ELSE deps[i]]
               ELSE Append(deps, [name |-> d_name,
                                  providers |-> <<<<provider, version>>>>])),
     exc |-> NoExc]

\* PkgDep.add_provider: the model after the call, or the exception raised
add_provider(P, D, p_name, d_name, provider, version) ==
    IF p_name \in DOMAIN D
    THEN IF HasDep(D[p_name], d_name)
         THEN [pkg |-> P,
               dep |-> DictSet(D, p_name,
                         [i \in 1..Len(D[p_name]) |->
                            IF D[p_name][i].name = d_name
                            THEN [name |-> d_name,
                                  providers |-> Append(D[p_name][i].providers,
                                                       <<provider, version>>)]
                            ELSE D[p_name][i]]),
               exc |-> NoExc]
         ELSE [pkg |-> P, dep |-> D, exc |-> "ValueError"]
    ELSE [pkg |-> P, dep |-> D, exc |-> "ValueError"]

\* PkgDep.get_arch .. PkgDep.get_summary: the value, or the exception raised
get_field(P, p_name, key) ==
    IF p_name \in DOMAIN P
    THEN [val |-> P[p_name][key], exc |-> NoExc]
    ELSE [val |-> None, exc |-> "ValueError"]

get_arch(P, p_name) == get_field(P, p_name, "Arch")
get_version(P, p_name) == get_field(P, p_name, "Version")
get_release(P, p_name) == get_field(P, p_name, "Release")
get_repository(P, p_name) == get_field(P, p_name, "Repo")
get_summary(P, p_name) == get_field(P, p_name, "Summary")

\* get_dependency_list without the sorted(): the keys in dictionary order
get_dependency_list_unsorted(D, p_name) ==
    IF p_name \in DOMAIN D
    THEN [val |-> DepKeys(D[p_name]), exc |-> NoExc]
    ELSE [val |-> None, exc |-> "ValueError"]

\* PkgDep.get_dependency_list
get_dependency_list(D, p_name) ==
    IF p_name \in DOMAIN D
    THEN [val |-> Sorted(DepKeys(D[p_name])), exc |-> NoExc]
    ELSE [val |-> None, exc |-> "ValueError"]

\* PkgDep.get_provider_list
get_provider_list(D, p_name, d_name) ==
    IF p_name \in DOMAIN D
    THEN IF HasDep(D[p_name], d_name)
         THEN [val |-> Providers(D[p_name], d_name), exc |-> NoExc]
         ELSE [val |-> None, exc |-> "ValueError"]
    ELSE [val |-> None, exc |-> "ValueError"]

\* PkgDep.internal_package
internal_package(P, p_name) == p_name \in DOMAIN P

\* The loop leaving after its first iteration (the break outside the if)
FoundInternal_first_only(P, provs) ==
    IF provs = <<>> THEN FALSE ELSE internal_package(P, Head(provs)[1])

\* The loop of PkgDep.internal_dependency over the provider list
RECURSIVE FoundInternal(_, _)
FoundInternal(P, provs) ==
    IF provs = <<>> THEN FALSE
    ELSE IF internal_package(P, Head(provs)[1]) THEN TRUE
    ELSE FoundInternal(P, Tail(provs))

\* PkgDep.internal_dependency
internal_dependency(P, D, p_name, d_name) ==
    LET l == get_provider_list(D, p_name, d_name) IN
    IF l.exc # NoExc THEN [val |-> None, exc |-> l.exc]
    ELSE [val |-> FoundInternal(P, l.val), exc |-> NoExc]

\* The list comprehension of get_dep_list
RECURSIVE InternalOnly(_, _, _, _)
InternalOnly(P, D, p_name, d_list) ==
    IF d_list = <<>> THEN <<>>
    ELSE LET r == internal_dependency(P, D, p_name, Head(d_list)) IN
         (IF r.exc = NoExc /\ r.val THEN <<Head(d_list)>> ELSE <<>>)
         \o InternalOnly(P, D, p_name, Tail(d_list))

\* get_dep_list
get_dep_list(P, D, p_name, include_all) ==
    LET l == get_dependency_list(D, p_name) IN
    IF l.exc # NoExc THEN l
    ELSE IF ~include_all
         THEN [val |-> InternalOnly(P, D, p_name, l.val), exc |-> NoExc]
         ELSE l

\* PkgDep.dependency_count
dependency_count(D, p_name) ==
    IF p_name \in DOMAIN D
    THEN [val |-> Len(D[p_name]), exc |-> NoExc]
    ELSE [val |-> None, exc |-> "ValueError"]

\* PkgDep.provider_count
provider_count(D, p_name, d_name) ==
    IF p_name \in DOMAIN D
    THEN IF HasDep(D[p_name], d_name)
         THEN [val |-> Len(Providers(D[p_name], d_name)), exc |-> NoExc]
         ELSE [val |-> None, exc |-> "ValueError"]
    ELSE [val |-> None, exc |-> "ValueError"]

----------------------------------------------------------------------------
(* The line classifiers *)

\* split_info_line: (key, value), (None, None), or the exception raised
split_info_line(l) ==
    LET words == SplitOn(l, ":")
        key == Strip(words[1])
    IN  IF key \in KEY_INFO_LIST
        THEN IF Len(words) >= 2
             THEN [key |-> key, value |-> Strip(words[2]), exc |-> NoExc]
             ELSE [key |-> None, value |-> None, exc |-> "IndexError"]
        ELSE [key |-> None, value |-> None, exc |-> NoExc]

\* split_dep_line: (key, name, version), (None, None, None), or the exception
\* raised
split_dep_line(l) ==
    LET words == SplitWords(l) IN
    IF Len(words) = 0
    THEN [key |-> None, name |-> None, version |-> None, exc |-> "IndexError"]
    ELSE LET key == Strip(words[1]) IN
         IF key = KEY_PACKAGE
         THEN IF Len(words) >= 3
              THEN [key |-> key, name |-> Strip(words[2]),
                    version |-> Strip(words[3]), exc |-> NoExc]
              ELSE [key |-> None, name |-> None, version |-> None,
                    exc |-> "IndexError"]
         ELSE IF key = KEY_DEPENDENCY
         THEN IF Len(words) >= 2
              THEN [key |-> key, name |-> Strip(words[2]), version |-> None,
                    exc |-> NoExc]
              ELSE [key |-> None, name |-> None, version |-> None,
                    exc |-> "IndexError"]
         ELSE IF key = KEY_PROVIDER
         THEN IF Len(words) >= 3
              THEN [key |-> key, name |-> Strip(words[2]),
                    version |-> Strip(words[3]), exc |-> NoExc]
              ELSE [key |-> None, name |-> None, version |-> None,
                    exc |-> "IndexError"]
         ELSE [key |-> None, name |-> None, version |-> None, exc |-> NoExc]

----------------------------------------------------------------------------
(* Calls on the model, in any order *)

\* The longest sequence of calls explored
MaxCalls == 5

KeyA == <<"a", ".", "x">>
KeyB == <<"b", ".", "x">>
PkgKeys == {KeyA, KeyB}
DepNames == {<<"b">>, <<"a">>, <<"a", "b">>}
\* (provider, version): one provider that can be a package, one that cannot
ProvChoices == {<<KeyA, <<"1">>>>, <<<<"e", ".", "x">>, <<"2">>>>}
\* (arch, version, release, repository, summary)
AttrTuples == {<<<<"x">>, <<"1">>, <<"1">>, <<"r">>, <<"s">>>>,
               <<<<"y">>, <<"2">>, <<"2">>, <<"p">>, <<"d">>>>}

InitModel ==
    /\ pkg = EmptyDict
    /\ dep = EmptyDict

InitCalls ==
    /\ call = [op |-> "init", exc |-> NoExc]
    /\ nCalls = 0

InitLocals ==
    /\ pos = 1
    /\ pkg_name = UNDEFINED
    /\ pkg_arch = UNDEFINED
    /\ pkg_version = UNDEFINED
    /\ pkg_release = UNDEFINED
    /\ pkg_repository = UNDEFINED
    /\ pkg_summary = UNDEFINED
    /\ dep_name = UNDEFINED

NoFile ==
    /\ file = <<>>
    /\ pc = "idle"

NoLine ==
    /\ line = <<>>
    /\ ret = None

Init == InitModel /\ InitCalls /\ InitLocals /\ NoFile /\ NoLine

AddPackage ==
    \E k \in PkgKeys, a \in AttrTuples :
        LET r == add_package(pkg, dep, k, a[1], a[2], a[3], a[4], a[5]) IN
        /\ nCalls < MaxCalls
        /\ pkg' = r.pkg
        /\ dep' = r.dep
        /\ call' = [op |-> "add_package", pkg_name |-> k, attrs |-> a, exc |-> r.exc]
        /\ ret' = None
        /\ nCalls' = nCalls + 1
        /\ UNCHANGED <<parseVars, infoLocals, line>>

AddDependency ==
    \E k \in PkgKeys, d \in DepNames :
        LET r == add_dependency(pkg, dep, k, d) IN
        /\ nCalls < MaxCalls
        /\ pkg' = r.pkg
        /\ dep' = r.dep
        /\ call' = [op |-> "add_dependency", pkg_name |-> k, dep_name |-> d,
                    exc |-> r.exc]
        /\ ret' = None
        /\ nCalls' = nCalls + 1
        /\ UNCHANGED <<parseVars, infoLocals, line>>

AddProvider ==
    \E k \in PkgKeys, d \in DepNames, pv \in ProvChoices :
        LET p == pv[1]
            v == pv[2]
            r == add_provider(pkg, dep, k, d, p, v)
        IN
        /\ nCalls < MaxCalls
        /\ pkg' = r.pkg
        /\ dep' = r.dep
        /\ call' = [op |-> "add_provider", pkg_name |-> k, dep_name |-> d,
                    provider |-> p, version |-> v, exc |-> r.exc]
        /\ ret' = None
        /\ nCalls' = nCalls + 1
        /\ UNCHANGED <<parseVars, infoLocals, line>>

GetDependencyList ==
    \E k \in PkgKeys :
        LET r == get_dependency_list(dep, k) IN
        /\ nCalls < MaxCalls
        /\ call' = [op |-> "get_dependency_list", pkg_name |-> k, exc |-> r.exc]
        /\ ret' = r.val
        /\ nCalls' = nCalls + 1
        /\ UNCHANGED <<modelVars, parseVars, infoLocals, line>>

GetDepList ==
    \E k \in PkgKeys, include_all \in BOOLEAN :
        LET r == get_dep_list(pkg, dep, k, include_all) IN
        /\ nCalls < MaxCalls
        /\ call' = [op |-> "get_dep_list", pkg_name |-> k,
                    include_all |-> include_all, exc |-> r.exc]
        /\ ret' = r.val
        /\ nCalls' = nCalls + 1
        /\ UNCHANGED <<modelVars, parseVars, infoLocals, line>>

Next ==
    \/ AddPackage
    \/ AddDependency
    \/ AddProvider
    \/ GetDependencyList
    \/ GetDepList

Spec == Init /\ [][Next]_vars

----------------------------------------------------------------------------
(* Properties of the calls on the model *)

\* The names recorded under one package's dependency dictionary
DepNameSet(deps) == {deps[i].name : i \in 1..Len(deps)}

\* The providers in a provider list
ProviderSet(provs) == {provs[i] : i \in 1..Len(provs)}

C2_PurelyAdditive ==
    [][\A k \in DOMAIN dep :
          /\ k \in DOMAIN dep'
          /\ \A i \in 1..Len(dep[k]) :
                /\ HasDep(dep'[k], dep[k][i].name)
                /\ ProviderSet(dep[k][i].providers)
                      \subseteq ProviderSet(Providers(dep'[k], dep[k][i].name))]_vars

\* C3: add_provider raises a lookup error and changes nothing when the package
\* is not in the dependency map or the dependency is not under it; otherwise it
\* appends the one (name, version) pair at the end of that dependency's
\* provider list and changes nothing else.
C3_AddProvider ==
    [][call'.op = "add_provider" =>
        LET k == call'.pkg_name
            d == call'.dep_name
        IN  IF k \notin DOMAIN dep \/ d \notin DepNameSet(dep[k])
            THEN /\ call'.exc = "ValueError"
                 /\ pkg' = pkg
                 /\ dep' = dep
            ELSE /\ call'.exc = NoExc
                 /\ pkg' = pkg
                 /\ DOMAIN dep' = DOMAIN dep
                 /\ \A j \in DOMAIN dep : j # k => dep'[j] = dep[j]
                 /\ Len(dep'[k]) = Len(dep[k])
                 /\ \A i \in 1..Len(dep[k]) :
                       /\ dep'[k][i].name = dep[k][i].name
                       /\ dep'[k][i].providers =
                             IF dep[k][i].name = d
                             THEN dep[k][i].providers
                                  \o <<<<call'.provider, call'.version>>>>
                             ELSE dep[k][i].providers]_vars

\* A second, different provider appended behind the first one
C3_Witness ==
    /\ call.op = "add_provider"
    /\ call.exc = NoExc
    /\ LET provs == Providers(dep[call.pkg_name], call.dep_name) IN
       /\ Len(provs) = 2
       /\ provs[2] = <<call.provider, call.version>>
       /\ provs[1] # provs[2]

\* Whether some provider of dependency d of package k is a package key
SomeProviderInternal(k, d) ==
    \E i \in 1..Len(Providers(dep[k], d)) :
        Providers(dep[k], d)[i][1] \in DOMAIN pkg

\* The sub-list of l whose dependencies have an internal provider
InternalSublist(k, l) ==
    LET keep == {i \in 1..Len(l) : SomeProviderInternal(k, l[i])}
        \* the position in l of the n-th kept element
        at(n) == CHOOSE i \in keep : Cardinality({j \in keep : j <= i}) = n
    IN  [n \in 1..Cardinality(keep) |-> l[at(n)]]

\* C4: for every key of the dependency map, get_dep_list(pkg, False) is the
\* dependency list restricted to the dependencies with at least one provider
\* that is a package key, get_dep_list(pkg, True) is the dependency list
\* itself, and both are empty for a package without dependencies.
C4_EffectiveDependencyList ==
    /\ \A k \in DOMAIN dep :
          LET all == get_dependency_list(dep, k).val IN
          /\ get_dep_list(pkg, dep, k, FALSE) =
                [val |-> InternalSublist(k, all), exc |-> NoExc]
          /\ get_dep_list(pkg, dep, k, TRUE) = [val |-> all, exc |-> NoExc]
          /\ dep[k] = <<>> =>
                /\ get_dep_list(pkg, dep, k, FALSE).val = <<>>
                /\ get_dep_list(pkg, dep, k, TRUE).val = <<>>
    /\ (call.op = "get_dep_list" /\ call.exc = NoExc) =>
          ret = IF call.include_all
                THEN get_dependency_list(dep, call.pkg_name).val
                ELSE InternalSublist(call.pkg_name,
                                     get_dependency_list(dep, call.pkg_name).val)

\* The internal-only list returned keeps the one dependency that has an
\* internal provider and drops the other
C4_Witness ==
    /\ call.op = "get_dep_list"
    /\ call.exc = NoExc
    /\ ~call.include_all
    /\ Len(dep[call.pkg_name]) = 2
    /\ Len(ret) = 1
    /\ Providers(dep[call.pkg_name], ret[1])[1][1] \in DOMAIN pkg

\* s before t in lexicographic order of the code points: at the first place
\* where they differ s has ended or has the smaller character
LexLess(s, t) ==
    \E i \in 1..(Len(t)) :
        /\ i <= Len(s) + 1
        /\ \A j \in 1..(i - 1) : s[j] = t[j]
        /\ (i = Len(s) + 1 \/ Ord[s[i]] < Ord[t[i]])

StrictlyAscending(l) ==
    \A i \in 1..Len(l) : \A j \in 1..Len(l) : i < j => LexLess(l[i], l[j])

\* C5: get_dependency_list and get_dep_list return the names recorded under
\* the package in strictly ascending lexicographic order (so each at most
\* once), whatever the order they were added in.
C5_SortedLists ==
    /\ \A k \in DOMAIN dep :
          /\ StrictlyAscending(get_dependency_list(dep, k).val)
          /\ {get_dependency_list(dep, k).val[i] :
                 i \in 1..Len(get_dependency_list(dep, k).val)} = DepNameSet(dep[k])
          /\ \A flag \in BOOLEAN :
                /\ StrictlyAscending(get_dep_list(pkg, dep, k, flag).val)
                /\ {get_dep_list(pkg, dep, k, flag).val[i] :
                       i \in 1..Len(get_dep_list(pkg, dep, k, flag).val)}
                      \subseteq DepNameSet(dep[k])
    /\ (call.op \in {"get_dependency_list", "get_dep_list"} /\ call.exc = NoExc)
          => StrictlyAscending(ret)

\* Three dependencies listed in an order other than the one they were added in
C5_Witness ==
    /\ call.op = "get_dependency_list"
    /\ call.exc = NoExc
    /\ Len(ret) = 3
    /\ ret # DepKeys(dep[call.pkg_name])
    /\ ret[1] = <<"a">>
    /\ ret[2] = <<"a", "b">>

\* C10: add_dependency leaves the package collection and every existing
\* provider list as they were; for a dependency already under the package it
\* changes nothing; for a package that is not in the dependency map it creates
\* the entry with that one dependency and no provider, and the package stays
\* non-internal.
C10_AddDependency ==
    [][call'.op = "add_dependency" =>
        LET k == call'.pkg_name
            d == call'.dep_name
        IN  /\ pkg' = pkg
            /\ \A j \in DOMAIN dep :
                  /\ j \in DOMAIN dep'
                  /\ Len(dep'[j]) >= Len(dep[j])
                  /\ \A i \in 1..Len(dep[j]) : dep'[j][i] = dep[j][i]
            /\ (k \in DOMAIN dep /\ d \in DepNameSet(dep[k])) => dep' = dep
            /\ k \notin DOMAIN dep =>
                  /\ dep'[k] = <<[name |-> d, providers |-> <<>>]>>
                  /\ ~internal_package(pkg, k)
                  /\ ~internal_package(pkg', k)]_vars

\* A dependency added again after a provider was attached to it
C10_Witness ==
    /\ call.op = "add_dependency"
    /\ call.pkg_name \notin DOMAIN pkg
    /\ Len(Providers(dep[call.pkg_name], call.dep_name)) > 0

----------------------------------------------------------------------------
(* split_info_line on one line *)

\* The most ':' in a line given to split_info_line
MaxColons == 2

InfoLineHeads ==
    KEY_INFO_LIST \cup {<<>>, <<"N", "a", "m">>, <<"n", "a", "m", "e">>}
InfoLinePads == {<<>>, <<" ">>}
InfoLineSegments == {<<>>, <<" ", "a">>, <<"b", " ", "c", "\n">>}

\* What follows the head of a line: up to n segments, each behind a ':'
RECURSIVE InfoLineRests(_)
InfoLineRests(n) ==
    IF n = 0 THEN {<<>>}
    ELSE {<<>>} \cup {<<":">> \o seg \o r :
                         seg \in InfoLineSegments, r \in InfoLineRests(n - 1)}

InfoLineInputs ==
    {lead \o head \o trail \o rest :
        lead \in InfoLinePads, head \in InfoLineHeads,
        trail \in InfoLinePads, rest \in InfoLineRests(MaxColons)}

InitInfoLine ==
    /\ InitModel /\ InitCalls /\ InitLocals
    /\ file = <<>>
    /\ pc = "call"
    /\ line \in InfoLineInputs
    /\ ret = None

SplitInfoLine ==
    /\ pc = "call"
    /\ ret' = split_info_line(line)
    /\ pc' = "return"
    /\ UNCHANGED <<modelVars, apiVars, infoLocals, file, pos, pkg_name, dep_name, line>>

NextInfoLine == SplitInfoLine

SpecInfoLine == InitInfoLine /\ [][NextInfoLine]_vars

\* Whether l holds a ':'
HasColon(l) == \E i \in 1..Len(l) : l[i] = ":"

\* The place of the first ':' of l
FirstColon(l) == CHOOSE i \in 1..Len(l) : l[i] = ":" /\ \A j \in 1..(i - 1) : l[j] # ":"

\* The trimmed text of l before its first ':'
TextBeforeColon(l) == Strip(SubSeq(l, 1, FirstColon(l) - 1))

\* The trimmed text of l behind its first ':', further ':' included
TextBehindColon(l) == Strip(SubSeq(l, FirstColon(l) + 1, Len(l)))

\* C7: split_info_line splits on the first ':' only: a line whose trimmed text
\* before the first ':' is one of the six keywords gives that keyword with the
\* whole trimmed rest of the line behind that ':'; every other line gives
\* (None, None) and no exception.
C7_SplitOnFirstColon ==
    pc = "return" =>
        IF HasColon(line) /\ TextBeforeColon(line) \in KEY_INFO_LIST
        THEN ret = [key |-> TextBeforeColon(line), value |-> TextBehindColon(line),
                    exc |-> NoExc]
        ELSE ret = [key |-> None, value |-> None, exc |-> NoExc]

----------------------------------------------------------------------------
(* parse_info_file *)

\* The longest info file explored
MaxInfoLines == 3

LineNameA == <<"N", "a", "m", "e", ":", " ", "a", "\n">>
LineNameB == <<"N", "a", "m", "e", ":", " ", "b", "\n">>
LineNameUndefined == <<"N", "a", "m", "e", ":", " ", "u", "n", "d", "e", "f", "i", "n", "e", "d", "\n">>
LineArchX == <<"A", "r", "c", "h", ":", " ", "x", "\n">>
LineVersion1 == <<"V", "e", "r", "s", "i", "o", "n", ":", " ", "1", "\n">>
LineVersionColon == <<"V", "e", "r", "s", "i", "o", "n", ":", " ", "1", ":", "2", "\n">>
LineRelease2 == <<"R", "e", "l", "e", "a", "s", "e", ":", " ", "2", "\n">>
LineRepoR == <<"R", "e", "p", "o", ":", " ", "r", "\n">>
LineSummaryS == <<"S", "u", "m", "m", "a", "r", "y", ":", " ", "s", "\n">>
LineBlank == <<"\n">>
LineNameNoColon == <<"N", "a", "m", "e", "\n">>
InfoFileLines ==
    {LineNameA, LineNameB, LineNameUndefined, LineArchX, LineVersion1, LineVersionColon, LineRelease2, LineRepoR, LineSummaryS, LineBlank, LineNameNoColon}

\* The files of at most n lines
RECURSIVE InfoFiles(_)
InfoFiles(n) ==
    IF n = 0 THEN {<<>>}
    ELSE InfoFiles(n - 1)
         \cup {Append(f, l) : f \in {g \in InfoFiles(n - 1) : Len(g) = n - 1},
                              l \in InfoFileLines}

InitInfo ==
    /\ InitModel /\ InitCalls /\ InitLocals /\ NoLine
    /\ file \in InfoFiles(MaxInfoLines)
    /\ pc = "info"

\* The add_package call of parse_info_file with the record in progress
InfoFlush ==
    LET key == pkg_name \o <<".">> \o pkg_arch
        r == add_package(pkg, dep, key, pkg_arch, pkg_version, pkg_release,
                         pkg_repository, pkg_summary)
    IN  /\ pkg' = r.pkg
        /\ dep' = r.dep
        /\ call' = [op |-> "add_package", pkg_name |-> key,
                    attrs |-> <<pkg_arch, pkg_version, pkg_release,
                                pkg_repository, pkg_summary>>,
                    exc |-> r.exc]
        /\ nCalls' = nCalls + 1

\* One turn of the loop, r being what split_info_line makes of the line read
InfoTurn(r) ==
    /\ pc = "info"
    /\ pos <= Len(file)
    /\ ret' = r
    /\ UNCHANGED <<file, dep_name, line>>

\* split_info_line raises: the exception leaves parse_info_file
InfoRaise ==
    LET r == split_info_line(file[pos]) IN
        /\ InfoTurn(r)
        /\ r.exc # NoExc
        /\ pc' = "error"
        /\ UNCHANGED <<modelVars, apiVars, infoLocals, pos, pkg_name>>

\* if key == KEY_NAME
InfoName ==
    LET r == split_info_line(file[pos]) IN
        /\ InfoTurn(r)
        /\ r.exc = NoExc
        /\ r.key = KEY_NAME
        /\ IF pkg_name # UNDEFINED
           THEN InfoFlush
           ELSE UNCHANGED <<modelVars, apiVars>>
        /\ pkg_name' = r.value
        /\ pkg_arch' = UNDEFINED
        /\ pkg_version' = UNDEFINED
        /\ pkg_release' = UNDEFINED
        /\ pkg_repository' = UNDEFINED
        /\ pkg_summary' = UNDEFINED
        /\ pos' = pos + 1
        /\ pc' = "info"

\* elif key == KEY_VERSION
InfoVersion ==
    LET r == split_info_line(file[pos]) IN
        /\ InfoTurn(r)
        /\ r.exc = NoExc
        /\ r.key = KEY_VERSION
        /\ pkg_version' = r.value
        /\ pos' = pos + 1
        /\ UNCHANGED <<modelVars, apiVars, pc, pkg_name, pkg_arch, pkg_release,
                       pkg_repository, pkg_summary>>

\* elif key == KEY_RELEASE
InfoRelease ==
    LET r == split_info_line(file[pos]) IN
        /\ InfoTurn(r)
        /\ r.exc = NoExc
        /\ r.key = KEY_RELEASE
        /\ pkg_release' = r.value
        /\ pos' = pos + 1
        /\ UNCHANGED <<modelVars, apiVars, pc, pkg_name, pkg_arch, pkg_version,
                       pkg_repository, pkg_summary>>

\* elif key == KEY_ARCH
InfoArch ==
    LET r == split_info_line(file[pos]) IN
        /\ InfoTurn(r)
        /\ r.exc = NoExc
        /\ r.key = KEY_ARCH
        /\ pkg_arch' = r.value
        /\ pos' = pos + 1
        /\ UNCHANGED <<modelVars, apiVars, pc, pkg_name, pkg_version, pkg_release,
                       pkg_repository, pkg_summary>>

\* elif key == KEY_REPOSITORY
InfoRepository ==
    LET r == split_info_line(file[pos]) IN
        /\ InfoTurn(r)
        /\ r.exc = NoExc
        /\ r.key = KEY_REPOSITORY
        /\ pkg_repository' = r.value
        /\ pos' = pos + 1
        /\ UNCHANGED <<modelVars, apiVars, pc, pkg_name, pkg_arch, pkg_version,
                       pkg_release, pkg_summary>>

\* elif key == KEY_SUMMARY
InfoSummary ==
    LET r == split_info_line(file[pos]) IN
        /\ InfoTurn(r)
        /\ r.exc = NoExc
        /\ r.key = KEY_SUMMARY
        /\ pkg_summary' = r.value
        /\ pos' = pos + 1
        /\ UNCHANGED <<modelVars, apiVars, pc, pkg_name, pkg_arch, pkg_version,
                       pkg_release, pkg_repository>>

\* No branch taken: key is None
InfoSkip ==
    LET r == split_info_line(file[pos]) IN
        /\ InfoTurn(r)
        /\ r.exc = NoExc
        /\ r.key = None
        /\ pos' = pos + 1
        /\ UNCHANGED <<modelVars, apiVars, infoLocals, pc, pkg_name>>

\* The last flush under the test that guards the flush of the loop
\* (pkg_name != UNDEFINED)
InfoEnd_conditional ==
    /\ pc = "info"
    /\ pos > Len(file)
    /\ IF pkg_name # UNDEFINED
       THEN InfoFlush
       ELSE UNCHANGED <<modelVars, apiVars>>
    /\ pc' = "done"
    /\ UNCHANGED <<infoLocals, file, pos, pkg_name, dep_name, line, ret>>

\* The loop is over: "Output the last package" and return
InfoEnd ==
    /\ pc = "info"
    /\ pos > Len(file)
    /\ InfoFlush
    /\ pc' = "done"
    /\ UNCHANGED <<infoLocals, file, pos, pkg_name, dep_name, line, ret>>

NextInfo ==
    \/ InfoRaise
    \/ InfoName
    \/ InfoVersion
    \/ InfoRelease
    \/ InfoArch
    \/ InfoRepository
    \/ InfoSummary
    \/ InfoSkip
    \/ InfoEnd

SpecInfo == InitInfo /\ [][NextInfo]_vars

\* Whether line l carries keyword K: its trimmed text before the first ':'
Carries(l, K) == HasColon(l) /\ TextBeforeColon(l) = K

\* The Name lines of file f: each starts a record
NameLines(f) == {i \in 1..Len(f) : Carries(f[i], KEY_NAME)}

\* The line behind the record that starts at line i: the next Name line, or
\* the end of the file
RecordEnd(f, i) ==
    IF \E j \in NameLines(f) : j > i
    THEN CHOOSE j \in NameLines(f) :
            j > i /\ \A k \in NameLines(f) : k > i => j <= k
    ELSE Len(f) + 1

\* The value of field K of the record that starts at line i: that of the last
\* line of the record carrying K, "undefined" without one
RecordField(f, i, K) ==
    LET at == {j \in (i + 1)..(RecordEnd(f, i) - 1) : Carries(f[j], K)} IN
    IF at = {} THEN UNDEFINED
    ELSE TextBehindColon(f[CHOOSE j \in at : \A k \in at : k <= j])

\* The name.arch key of the record that starts at line i
RecordKey(f, i) ==
    TextBehindColon(f[i]) \o <<".">> \o RecordField(f, i, KEY_ARCH)

\* C6: after parse_info_file, for every record whose name.arch key occurs once
\* in the file, each accessor returns the value of the last line of the record
\* carrying the field's keyword, and "undefined" when the record has no such
\* line.
C6_AccessorsReturnRecordFields ==
    pc = "done" =>
        \A i \in NameLines(file) :
            (\A j \in NameLines(file) \ {i} : RecordKey(file, j) # RecordKey(file, i))
            => LET key == RecordKey(file, i) IN
               /\ get_arch(pkg, key) =
                     [val |-> RecordField(file, i, KEY_ARCH), exc |-> NoExc]
               /\ get_version(pkg, key) =
                     [val |-> RecordField(file, i, KEY_VERSION), exc |-> NoExc]
               /\ get_release(pkg, key) =
                     [val |-> RecordField(file, i, KEY_RELEASE), exc |-> NoExc]
               /\ get_repository(pkg, key) =
                     [val |-> RecordField(file, i, KEY_REPOSITORY), exc |-> NoExc]
               /\ get_summary(pkg, key) =
                     [val |-> RecordField(file, i, KEY_SUMMARY), exc |-> NoExc]

\* The last Name line of f before line i
LastNameLineBefore(f, i) ==
    CHOOSE j \in NameLines(f) : j < i /\ \A k \in NameLines(f) : k < i => k <= j

\* Whether package key k is some name followed by '.' and an architecture
KeyCarriesName(k, name) ==
    /\ Len(k) > Len(name)
    /\ SubSeq(k, 1, Len(name) + 1) = name \o <<".">>

ArchLines(f) == {i \in 1..Len(f) : Carries(f[i], KEY_ARCH)}

\* The architecture accumulated over a file without a Name line: the value
\* split_info_line gives for its last Arch line, "undefined" without one
LastArch(f) ==
    IF ArchLines(f) = {} THEN UNDEFINED
    ELSE split_info_line(f[CHOOSE j \in ArchLines(f) :
                              \A k \in ArchLines(f) : k <= j]).value

\* C12 as claimed: at the end of the input the pending record is flushed
\* whatever it holds, and for an input without a Name line the one package
\* added has the key undefined.undefined.
C12_NoNameLineKeyUndefined ==
    pc = "done" =>
        /\ call.op = "add_package"
        /\ NameLines(file) = {} =>
              /\ nCalls = 1
              /\ DOMAIN pkg = {UNDEFINED \o <<".">> \o UNDEFINED}

\* C12 as amended: at the end of the input the pending record is flushed
\* whatever it holds, and for an input without a Name line the one package
\* added has the key undefined.<arch>, <arch> being the value of the last Arch
\* line, "undefined" without one.
C12_NoNameLineKeyUndefinedArch ==
    pc = "done" =>
        /\ call.op = "add_package"
        /\ nCalls >= 1
        /\ call.pkg_name \in DOMAIN pkg
        /\ NameLines(file) = {} =>
              /\ nCalls = 1
              /\ DOMAIN pkg = {UNDEFINED \o <<".">> \o LastArch(file)}
              /\ (ArchLines(file) = {} =>
                     DOMAIN pkg = {UNDEFINED \o <<".">> \o UNDEFINED})

\* A file without a Name line and with an Arch line, parsed to its end
C12_Witness ==
    /\ pc = "done"
    /\ NameLines(file) = {}
    /\ ArchLines(file) # {}
    /\ Len(file) >= 2
    /\ DOMAIN pkg = {UNDEFINED \o <<".", "x">>}

----------------------------------------------------------------------------
(* parse_dep_file *)

\* The longest dependency file explored
MaxDepLines == 4

LinePackageA == <<"p", "a", "c", "k", "a", "g", "e", ":", " ", "a", ".", "x", " ", "1", "\n">>
LinePackageB == <<"p", "a", "c", "k", "a", "g", "e", ":", " ", "b", ".", "x", " ", "1", "\n">>
LineDependencyD == <<"d", "e", "p", "e", "n", "d", "e", "n", "c", "y", ":", " ", "d", "\n">>
LineDependencyE == <<"d", "e", "p", "e", "n", "d", "e", "n", "c", "y", ":", " ", "e", "\n">>
LineProviderA == <<"p", "r", "o", "v", "i", "d", "e", "r", ":", " ", "a", ".", "x", " ", "1", "\n">>
LineEmpty == <<"\n">>
LineDashes == <<"-", "-", "-", "\n">>
DepFileLines ==
    {LinePackageA, LinePackageB, LineDependencyD, LineDependencyE, LineProviderA, LineEmpty, LineDashes}

\* The files of at most n lines
RECURSIVE DepFiles(_)
DepFiles(n) ==
    IF n = 0 THEN {<<>>}
    ELSE DepFiles(n - 1)
         \cup {Append(f, l) : f \in {g \in DepFiles(n - 1) : Len(g) = n - 1},
                              l \in DepFileLines}

\* parse_files hands parse_dep_file the model parse_info_file has filled: some
\* packages, none with a dependency yet
InitDep ==
    /\ InitCalls /\ InitLocals /\ NoLine
    /\ \E S \in SUBSET PkgKeys :
          /\ pkg = [k \in S |-> [Arch |-> <<"x">>, Version |-> <<"1">>,
                                 Release |-> <<"1">>, Repo |-> <<"r">>,
                                 Summary |-> <<"s">>]]
          /\ dep = [k \in S |-> <<>>]
    /\ file \in DepFiles(MaxDepLines)
    /\ pc = "dep"

\* One turn of the loop, r being what split_dep_line makes of the line read
DepTurn(r) ==
    /\ pc = "dep"
    /\ pos <= Len(file)
    /\ ret' = r
    /\ UNCHANGED <<infoLocals, file, line>>

\* split_dep_line raises: the exception leaves parse_dep_file
DepRaise ==
    LET r == split_dep_line(file[pos]) IN
        /\ DepTurn(r)
        /\ r.exc # NoExc
        /\ pc' = "error"
        /\ UNCHANGED <<modelVars, apiVars, pos, pkg_name, dep_name>>

\* if key == KEY_PACKAGE
DepPackage ==
    LET r == split_dep_line(file[pos]) IN
        /\ DepTurn(r)
        /\ r.exc = NoExc
        /\ r.key = KEY_PACKAGE
        /\ pkg_name' = r.name
        /\ pos' = pos + 1
        /\ UNCHANGED <<modelVars, apiVars, pc, dep_name>>

\* elif key == KEY_DEPENDENCY
DepDependency ==
    LET r == split_dep_line(file[pos]) IN
        /\ DepTurn(r)
        /\ r.exc = NoExc
        /\ r.key = KEY_DEPENDENCY
        /\ LET m == add_dependency(pkg, dep, pkg_name, r.name) IN
           /\ pkg' = m.pkg
           /\ dep' = m.dep
           /\ call' = [op |-> "add_dependency", pkg_name |-> pkg_name,
                       dep_name |-> r.name, exc |-> m.exc]
           /\ nCalls' = nCalls + 1
        /\ dep_name' = r.name
        /\ pos' = pos + 1
        /\ UNCHANGED <<pc, pkg_name>>

\* elif key == KEY_PROVIDER: the ValueError of add_provider leaves
\* parse_dep_file
DepProvider ==
    LET r == split_dep_line(file[pos]) IN
        /\ DepTurn(r)
        /\ r.exc = NoExc
        /\ r.key = KEY_PROVIDER
        /\ LET m == add_provider(pkg, dep, pkg_name, dep_name, r.name, r.version) IN
           /\ pkg' = m.pkg
           /\ dep' = m.dep
           /\ call' = [op |-> "add_provider", pkg_name |-> pkg_name,
                       dep_name |-> dep_name, provider |-> r.name,
                       version |-> r.version, exc |-> m.exc]
           /\ nCalls' = nCalls + 1
           /\ pc' = IF m.exc = NoExc THEN "dep" ELSE "error"
           /\ pos' = IF m.exc = NoExc THEN pos + 1 ELSE pos
        /\ UNCHANGED <<pkg_name, dep_name>>

\* No branch taken: key is None
DepSkip ==
    LET r == split_dep_line(file[pos]) IN
        /\ DepTurn(r)
        /\ r.exc = NoExc
        /\ r.key = None
        /\ pos' = pos + 1
        /\ UNCHANGED <<modelVars, apiVars, pc, pkg_name, dep_name>>

\* The loop is over: return
DepEnd ==
    /\ pc = "dep"
    /\ pos > Len(file)
    /\ pc' = "done"
    /\ UNCHANGED <<modelVars, apiVars, infoLocals, file, pos, pkg_name, dep_name,
                   line, ret>>

NextDep ==
    \/ DepRaise
    \/ DepPackage
    \/ DepDependency
    \/ DepProvider
    \/ DepSkip
    \/ DepEnd

SpecDep == InitDep /\ [][NextDep]_vars

\* The whitespace-separated tokens of l: the places where a token starts
TokenStarts(l) ==
    {i \in 1..Len(l) : ~IsSpace(l[i]) /\ (i = 1 \/ IsSpace(l[i - 1]))}

\* The n-th whitespace-separated token of l, None without one
Token(l, n) ==
    IF Cardinality(TokenStarts(l)) < n THEN None
    ELSE LET a == CHOOSE i \in TokenStarts(l) :
                      Cardinality({j \in TokenStarts(l) : j <= i}) = n
             b == CHOOSE i \in a..Len(l) :
                      /\ \A j \in a..i : ~IsSpace(l[j])
                      /\ (i = Len(l) \/ IsSpace(l[i + 1]))
         IN  SubSeq(l, a, b)

\* C8: a line of the dependency file whose first token is none of package:,
\* dependency:, provider: (a blank line included) is classified (None, None,
\* None) and skipped: the model, the current package and the current
\* dependency stay as they were and the parser goes on with the next line.
C8_UnrecognizedLineSkipped ==
    [][(pc = "dep" /\ pos <= Len(file) /\ Token(file[pos], 1) \notin KEY_DEP_LIST)
        => /\ ret' = [key |-> None, name |-> None, version |-> None, exc |-> NoExc]
           /\ pc' = "dep"
           /\ pos' = pos + 1
           /\ UNCHANGED <<pkg, dep, pkg_name, dep_name>>]_vars

\* The package: lines of f before line i
PackageLinesBefore(f, i) == {j \in 1..(i - 1) : Token(f[j], 1) = KEY_PACKAGE}

\* The package of line i of f: the one named on the last package: line before
\* it, None when there is none
PackageAt(f, i) ==
    IF PackageLinesBefore(f, i) = {} THEN None
    ELSE Token(f[CHOOSE j \in PackageLinesBefore(f, i) :
                    \A k \in PackageLinesBefore(f, i) : k <= j], 2)

\* Whether a dependency: line for the package of line i comes before line i
DependencyLineBefore(f, i) ==
    \E j \in 1..(i - 1) :
        /\ Token(f[j], 1) = KEY_DEPENDENCY
        /\ PackageAt(f, j) = PackageAt(f, i)

\* C9: in parse_dep_file a provider: line that comes before any dependency:
\* line for the current package, or before any package: line, raises the
\* lookup error of add_provider and records nothing.
C9_ProviderNeedsPackageAndDependency ==
    [][(/\ pc = "dep"
        /\ pos <= Len(file)
        /\ Token(file[pos], 1) = KEY_PROVIDER
        /\ (PackageLinesBefore(file, pos) = {} \/ ~DependencyLineBefore(file, pos)))
        => /\ pc' = "error"
           /\ call'.op = "add_provider"
           /\ call'.exc = "ValueError"
           /\ pkg' = pkg
           /\ dep' = dep]_vars

\* The dependency: lines of f before line i
DependencyLinesBefore(f, i) == {j \in 1..(i - 1) : Token(f[j], 1) = KEY_DEPENDENCY}

\* The last line of the set S of line numbers
LastLine(S) == CHOOSE j \in S : \A k \in S : k <= j

\* C13: in parse_dep_file a provider: line behind a package: line is recorded
\* under (p, d) only when
\* the most recent package: line named p and a dependency: line naming d came
\* after that package: line with no other dependency: line in between; a
\* provider: line with no dependency: line since the most recent package: line
\* is never recorded.
C13_ProviderInSamePackageBlock ==
    [][(/\ pc = "dep"
        /\ pos <= Len(file)
        /\ call'.op = "add_provider"
        /\ nCalls' = nCalls + 1
        /\ call'.exc = NoExc
        /\ PackageLinesBefore(file, pos) # {})
        => /\ call'.pkg_name = PackageAt(file, pos)
           /\ DependencyLinesBefore(file, pos) # {}
           /\ LastLine(DependencyLinesBefore(file, pos))
                  > LastLine(PackageLinesBefore(file, pos))
           /\ call'.dep_name
                  = Token(file[LastLine(DependencyLinesBefore(file, pos))], 2)]_vars

----------------------------------------------------------------------------
(* The renderers *)

\* The most calls in one behaviour of the renderers' specification
MaxRenderCalls == 4

\* str() of a number that is not negative
DecimalDigits == <<"0", "1", "2", "3", "4", "5", "6", "7", "8", "9">>

RECURSIVE Str(_)
Str(n) ==
    IF n < 10 THEN <<DecimalDigits[n + 1]>>
    ELSE Str(n \div 10) \o <<DecimalDigits[(n % 10) + 1]>>

\* The keys of a dictionary as a sequence, in some order
RECURSIVE KeySeq(_)
KeySeq(S) ==
    IF S = {} THEN <<>>
    ELSE LET k == CHOOSE x \in S : TRUE IN <<k>> \o KeySeq(S \ {k})

\* sorted(dep.pkg)
SortedKeys(P) == Sorted(KeySeq(DOMAIN P))

\* output_text, the loop over the providers of one dependency
RECURSIVE text_providers(_, _)
text_providers(P, provs) ==
    IF provs = <<>> THEN <<>>
    ELSE LET p_name == Head(provs)[1]
             p_version == Head(provs)[2]
             flag == IF internal_package(P, p_name)
                     THEN <<" ">> \o INTERNAL ELSE <<>>
         IN  <<<<" ", " ", " ", " ">> \o <<"[">> \o p_name \o <<",", " ">> \o p_version
                 \o <<"]">> \o flag>>
             \o text_providers(P, Tail(provs))

\* output_text, the loop over the dependency list of one package: the lines
\* printed and the exception that ended it
RECURSIVE text_dependencies(_, _, _, _)
text_dependencies(P, D, p_name, dep_list) ==
    IF dep_list = <<>> THEN [val |-> <<>>, exc |-> NoExc]
    ELSE LET dep_line == <<" ", " ">> \o Head(dep_list)
             l == get_provider_list(D, p_name, Head(dep_list))
         IN  IF l.exc # NoExc THEN [val |-> <<dep_line>>, exc |-> l.exc]
             ELSE LET rest == text_dependencies(P, D, p_name, Tail(dep_list)) IN
                  [val |-> <<dep_line>> \o text_providers(P, l.val) \o rest.val,
                   exc |-> rest.exc]

\* output_text, one turn of the loop over the packages
text_package(P, D, p_name, print_all) ==
    LET version == get_version(P, p_name)
        release == get_release(P, p_name)
        arch == get_arch(P, p_name)
        repository == get_repository(P, p_name)
        summary == get_summary(P, p_name)
    IN  IF \E a \in {version, release, arch, repository, summary} : a.exc # NoExc
        THEN [val |-> <<>>, exc |-> "ValueError"]
        ELSE LET package_line ==
                     <<"P", "a", "c", "k", "a", "g", "e", " ">> \o p_name
                     \o <<" ", "[">> \o version.val \o <<"]">>
                     \o <<" ", "[">> \o release.val \o <<"]">>
                     \o <<" ", "[">> \o arch.val \o <<"]">>
                     \o <<" ", "[">> \o repository.val \o <<"]">>
                     \o <<" ", "[">> \o summary.val \o <<"]">>
                 dep_list == get_dep_list(P, D, p_name, print_all)
             IN  IF dep_list.exc # NoExc
                 THEN [val |-> <<package_line>>, exc |-> dep_list.exc]
                 ELSE IF Len(dep_list.val) = 0
                 THEN [val |-> <<package_line>>, exc |-> NoExc]
                 ELSE LET r == text_dependencies(P, D, p_name, dep_list.val) IN
                      [val |-> <<package_line>> \o r.val, exc |-> r.exc]

\* output_text, the loop over sorted(dep.pkg)
RECURSIVE text_packages(_, _, _, _)
text_packages(P, D, names, print_all) ==
    IF names = <<>> THEN [val |-> <<>>, exc |-> NoExc]
    ELSE LET r == text_package(P, D, Head(names), print_all) IN
         IF r.exc # NoExc THEN r
         ELSE LET rest == text_packages(P, D, Tail(names), print_all) IN
              [val |-> r.val \o rest.val, exc |-> rest.exc]

\* output_text: the lines printed, and the exception raised if any
output_text(P, D, print_all) == text_packages(P, D, SortedKeys(P), print_all)

\* output_wiki, the inner loop of the row span computation: the sum of
\* provider_count over the dependency list
RECURSIVE provider_sum(_, _, _)
provider_sum(D, p_name, dep_list) ==
    IF dep_list = <<>> THEN [val |-> 0, exc |-> NoExc]
    ELSE LET c == provider_count(D, p_name, Head(dep_list)) IN
         IF c.exc # NoExc THEN c
         ELSE LET rest == provider_sum(D, p_name, Tail(dep_list)) IN
              IF rest.exc # NoExc THEN rest
              ELSE [val |-> c.val + rest.val, exc |-> NoExc]

\* output_wiki, "Compute the number of rows per package": the dictionary
\* row_span built over sorted(dep.pkg)
RECURSIVE row_span(_, _, _, _, _)
row_span(P, D, names, print_all, acc) ==
    IF names = <<>> THEN [val |-> acc, exc |-> NoExc]
    ELSE LET dep_list == get_dep_list(P, D, Head(names), print_all) IN
         IF dep_list.exc # NoExc THEN [val |-> acc, exc |-> dep_list.exc]
         ELSE LET s == provider_sum(D, Head(names), dep_list.val) IN
              IF s.exc # NoExc THEN [val |-> acc, exc |-> s.exc]
              ELSE row_span(P, D, Tail(names), print_all,
                            DictSet(acc, Head(names),
                                    IF s.val > 1 THEN s.val ELSE 1))

\* '| rowspan="' + str(n) + '" | ' + text
rowspan_cell(n, text) ==
    <<"|", " ", "r", "o", "w", "s", "p", "a", "n", "=", "\"">> \o Str(n) \o <<"\"", " ", "|", " ">> \o text

\* '| ' + text
cell(text) == <<"|", " ">> \o text

\* '|-'
row_end == <<"|", "-">>

\* output_wiki, the loop over the providers of one dependency
RECURSIVE wiki_providers(_, _)
wiki_providers(P, provs) ==
    IF provs = <<>> THEN <<>>
    ELSE LET p_name == Head(provs)[1]
             p_version == Head(provs)[2]
             r == get_repository(P, p_name)
             p_repository == IF r.exc = "ValueError" THEN <<>> ELSE r.val
             link == IF internal_package(P, p_name)
                     THEN <<"[", "[", "#">> \o p_name \o <<"|">> \o p_name
                          \o <<"]", "]">>
                     ELSE p_name
         IN  <<cell(link), cell(p_version), cell(p_repository), row_end>>
             \o wiki_providers(P, Tail(provs))

\* output_wiki, the loop over the dependency list of one package
RECURSIVE wiki_dependencies(_, _, _, _)
wiki_dependencies(P, D, p_name, dep_list) ==
    IF dep_list = <<>> THEN [val |-> <<>>, exc |-> NoExc]
    ELSE LET c == provider_count(D, p_name, Head(dep_list)) IN
         IF c.exc # NoExc THEN [val |-> <<>>, exc |-> c.exc]
         ELSE LET dep_cell == rowspan_cell(c.val, Head(dep_list))
                  l == get_provider_list(D, p_name, Head(dep_list))
              IN  IF l.exc # NoExc THEN [val |-> <<dep_cell>>, exc |-> l.exc]
                  ELSE LET rest == wiki_dependencies(P, D, p_name, Tail(dep_list)) IN
                       [val |-> <<dep_cell>> \o wiki_providers(P, l.val) \o rest.val,
                        exc |-> rest.exc]

\* output_wiki, one turn of the second loop over the packages
wiki_package(P, D, p_name, span, pkg_count, print_all) ==
    LET version == get_version(P, p_name)
        repository == get_repository(P, p_name)
        count_cell == rowspan_cell(span, Str(pkg_count))
        name_cell == rowspan_cell(span, <<"<", "s", "p", "a", "n", " ", "i", "d", "=", "\"">> \o p_name \o <<"\"", ">">>
                                        \o p_name \o <<"<", "/", "s", "p", "a", "n", ">">>)
    IN  IF version.exc # NoExc
        THEN [val |-> <<count_cell, name_cell>>, exc |-> version.exc]
        ELSE IF repository.exc # NoExc
        THEN [val |-> <<count_cell, name_cell, rowspan_cell(span, version.val)>>,
              exc |-> repository.exc]
        ELSE LET cells == <<count_cell, name_cell,
                            rowspan_cell(span, version.val),
                            rowspan_cell(span, repository.val)>>
                 dep_list == get_dep_list(P, D, p_name, print_all)
             IN  IF dep_list.exc # NoExc
                 THEN [val |-> cells, exc |-> dep_list.exc]
                 ELSE IF Len(dep_list.val) = 0
                 THEN [val |-> cells \o <<<<"|", " ", "-", "-", "-">>, <<"|", " ", "-", "-", "-">>, <<"|", " ", "-", "-", "-">>, <<"|", " ", "-", "-", "-">>, row_end>>,
                       exc |-> NoExc]
                 ELSE LET r == wiki_dependencies(P, D, p_name, dep_list.val) IN
                      [val |-> cells \o r.val, exc |-> r.exc]

\* output_wiki, the second loop over sorted(dep.pkg)
RECURSIVE wiki_packages(_, _, _, _, _, _)
wiki_packages(P, D, names, spans, pkg_count, print_all) ==
    IF names = <<>> THEN [val |-> <<>>, exc |-> NoExc]
    ELSE LET r == wiki_package(P, D, Head(names), spans[Head(names)],
                               pkg_count, print_all) IN
         IF r.exc # NoExc THEN r
         ELSE LET rest == wiki_packages(P, D, Tail(names), spans,
                                        pkg_count + 1, print_all) IN
              [val |-> r.val \o rest.val, exc |-> rest.exc]

\* The three lines of the header
wiki_header ==
    <<<<"{", "|", " ", "c", "l", "a", "s", "s", "=", "\"", "w", "i", "k", "i", "t", "a", "b", "l", "e", "\"">>,
      <<"!", " ", "#", " ", "|", "|", " ", "P", "a", "c", "k", "a", "g", "e", " ", "|", "|", " ", "V", "e", "r", "s", "i", "o", "n", "|", "|", " ", "R", "e", "p", "o", "s", "i", "t", "o", "r", "y", " ", "|", "|", " ", "D", "e", "p", "e", "n", "d", "e", "n", "c", "y", " ", "|", "|", " ", "P", "r", "o", "v", "i", "d", "e", "r", " ", "|", "|", " ", "V", "e", "r", "s", "i", "o", "n", " ", "|", "|", " ", "R", "e", "p", "o", "s", "i", "t", "o", "r", "y">>,
      row_end>>

\* '|}'
wiki_footer == <<"|", "}">>

\* output_wiki: the lines printed, and the exception raised if any
output_wiki(P, D, print_all) ==
    LET spans == row_span(P, D, SortedKeys(P), print_all, EmptyDict) IN
    IF spans.exc # NoExc THEN [val |-> wiki_header, exc |-> spans.exc]
    ELSE LET r == wiki_packages(P, D, SortedKeys(P), spans.val, 1, print_all) IN
         IF r.exc # NoExc THEN [val |-> wiki_header \o r.val, exc |-> r.exc]
         ELSE [val |-> wiki_header \o r.val \o <<wiki_footer>>, exc |-> NoExc]

\* A call of output_text on the model
OutputText ==
    \E print_all \in BOOLEAN :
        LET r == output_text(pkg, dep, print_all) IN
        /\ nCalls < MaxRenderCalls
        /\ call' = [op |-> "output_text", print_all |-> print_all, exc |-> r.exc]
        /\ ret' = r.val
        /\ nCalls' = nCalls + 1
        /\ UNCHANGED <<modelVars, parseVars, infoLocals, line>>

\* A call of output_wiki on the model
OutputWiki ==
    \E print_all \in BOOLEAN :
        LET r == output_wiki(pkg, dep, print_all) IN
        /\ nCalls < MaxRenderCalls
        /\ call' = [op |-> "output_wiki", print_all |-> print_all, exc |-> r.exc]
        /\ ret' = r.val
        /\ nCalls' = nCalls + 1
        /\ UNCHANGED <<modelVars, parseVars, infoLocals, line>>

\* The model filled by calls in any order, and rendered
NextRender ==
    \/ nCalls < MaxRenderCalls /\ AddPackage
    \/ nCalls < MaxRenderCalls /\ AddDependency
    \/ nCalls < MaxRenderCalls /\ AddProvider
    \/ OutputText
    \/ OutputWiki

SpecRender == Init /\ [][NextRender]_vars

\* The cell that anchors package p in the table, with row span n
AnchorCell(n, p) ==
    <<"|", " ", "r", "o", "w", "s", "p", "a", "n", "=", "\"">> \o Str(n) \o <<"\"", " ", "|", " ">>
    \o <<"<", "s", "p", "a", "n", " ", "i", "d", "=", "\"">> \o p \o <<"\"", ">">> \o p \o <<"<", "/", "s", "p", "a", "n", ">">>

\* The lines of the output that anchor a package
AnchorLines(out) ==
    {i \in 1..Len(out) :
        \E p \in DOMAIN pkg, n \in 0..Len(out) : out[i] = AnchorCell(n, p)}

\* The line that anchors package p
AnchorLine(out, p) ==
    CHOOSE i \in 1..Len(out) : \E n \in 0..Len(out) : out[i] = AnchorCell(n, p)

\* The last line printed for package p: the package's lines start one line
\* before its anchor and end where the next package's lines or the footer
\* start
LastLineOf(out, p) ==
    LET a == AnchorLine(out, p)
        later == {j \in AnchorLines(out) : j > a}
    IN  IF later = {} THEN Len(out) - 1
        ELSE (CHOOSE j \in later : \A k \in later : j <= k) - 2

\* The number of table rows printed for package p: its row terminators
TableRows(out, p) ==
    Cardinality({i \in AnchorLine(out, p)..LastLineOf(out, p) : out[i] = <<"|", "-">>})

\* C14: output_wiki prints, for every package and either value of the flag, as
\* many table rows for the package as the row span it declares on the
\* package's cells, also when dependencies of the package have no provider.
C14_RowSpanEqualsRows ==
    (call.op = "output_wiki" /\ call.exc = NoExc) =>
        \A p \in DOMAIN pkg :
            \E n \in 0..Len(ret) :
                /\ \E i \in 1..Len(ret) : ret[i] = AnchorCell(n, p)
                /\ n = TableRows(ret, p)

\* C15: whatever calls of add_package, add_dependency and add_provider were
\* made, every key of pkg is a key of dep, so that get_dependency_list,
\* dependency_count and get_dep_list raise nothing for an internal package and
\* the renderers, which loop over the keys of pkg, end without an exception.
C15_PkgKeysAreDepKeys ==
    /\ DOMAIN pkg \subseteq DOMAIN dep
    /\ \A k \in DOMAIN pkg :
        /\ get_dependency_list(dep, k).exc = NoExc
        /\ dependency_count(dep, k).exc = NoExc
        /\ \A include_all \in BOOLEAN :
               get_dep_list(pkg, dep, k, include_all).exc = NoExc
    /\ \A print_all \in BOOLEAN :
        /\ output_text(pkg, dep, print_all).exc = NoExc
        /\ output_wiki(pkg, dep, print_all).exc = NoExc
    /\ call.op \in {"output_text", "output_wiki"} => call.exc = NoExc

\* A model with one package that has a dependency, and with a dependency
\* entry for a name that is no package, rendered as text with all dependencies
C15_Witness ==
    /\ call.op = "output_text"
    /\ call.print_all
    /\ call.exc = NoExc
    /\ Cardinality(DOMAIN pkg) = 1
    /\ DOMAIN dep \ DOMAIN pkg # {}
    /\ \E k \in DOMAIN pkg : Len(dep[k]) > 0
    /\ Len(ret) = 2

====
